---- MODULE Spec2Model ----
(***************************************************************************)
(* Model of the lexer of src/src/lib.rs (struct Lexer and its rule set).   *)
(*                                                                         *)
(* A String is a sequence of one-character strings.  Every Regex of the    *)
(* rule set is only ever applied to a one-character string (lib.rs:163,    *)
(* 188, 189, 204, 205, 229), so a compiled pattern is modelled by the set  *)
(* of characters it accepts.  Option<Token> is a sequence of length <= 1:  *)
(* << >> is None and <<t>> is Some(t).  A panic (index out of bounds in    *)
(* ch(), expect() on a missing operator, panic!() in the fallback branch)  *)
(* sets aborted, after which no call is possible.                          *)
(***************************************************************************)
EXTENDS Integers, Sequences, FiniteSets, TLC

\* Longest source text enumerated by Init.
MaxLen == 4

\* Longest run of consecutive peeks a consumer makes.
MaxPeeks == 3

\* The characters of the source texts (ASCII, so that the byte read by ch()
\* is the char removed by get()).
Chars == {"1", "a", "+", "#", " ", "\n"}

None == << >>
Some(t) == << t >>

RECURSIVE SeqsUpTo(_)
SeqsUpTo(n) ==
  IF n = 0 THEN { << >> }
  ELSE LET shorter == SeqsUpTo(n - 1)
       IN  shorter \cup { Append(s, c) : s \in { x \in shorter : Len(x) = n - 1 }, c \in Chars }

Sources == SeqsUpTo(MaxLen)

(***************************************************************************)
(* Rule sets (struct RuleSet / RegexRuleSet).  literal_regex maps a type   *)
(* name to <<start, halt>>; operators maps an operator lexeme to its name. *)
(***************************************************************************)
Whitespace == {"\n", " "}

\* The calculator rule set of the crate documentation, cut to Chars.
CalcRules ==
  [ keywords       |-> { },
    literal_regex  |-> [ n \in {"number"} |-> << {"1"}, Chars \ {"1"} >> ],
    operators      |-> [ k \in { <<"+">> } |-> "add" ],
    operator_start |-> {"+"},
    operator_halt  |-> {"\n", " ", "1", "a"},
    whitespace     |-> Whitespace ]

\* Two literal rules whose start patterns both accept "1", a keyword that a
\* literal rule scans, and a two-character operator.
OverlapRules ==
  [ keywords       |-> { <<"a">> },
    literal_regex  |-> [ n \in {"int", "word"} |->
                           IF n = "int" THEN << {"1"}, Chars \ {"1"} >>
                                        ELSE << {"1", "a"}, {" ", "\n", "+", "#"} >> ],
    operators      |-> [ k \in { <<"+">>, <<"+", "+">> } |->
                           IF k = <<"+">> THEN "add" ELSE "concat" ],
    operator_start |-> {"+"},
    operator_halt  |-> {"\n", " ", "1", "a"},
    whitespace     |-> Whitespace ]

\* A literal and an operator whose halt patterns do not accept "\n", a
\* literal start pattern ("anything but # and newline") that also accepts a
\* blank and the operator start "+", and a keyword that no literal rule scans.
TextRules ==
  [ keywords       |-> { <<"#">> },
    literal_regex  |-> [ n \in {"text"} |-> << Chars \ {"#", "\n"}, {" "} >> ],
    operators      |-> [ k \in { <<"+">> } |-> "add" ],
    operator_start |-> {"+"},
    operator_halt  |-> {" ", "a", "1"},
    whitespace     |-> Whitespace ]

RuleSets == { CalcRules, OverlapRules, TextRules }

\* The orders in which a HashMap over the names S may iterate.
Orders(S) ==
  { o \in [ 1..Cardinality(S) -> S ] : \A i, j \in 1..Cardinality(S) : o[i] = o[j] => i = j }

VARIABLES
  source,      \* Lexer.source: the text not yet consumed
  line,        \* Lexer.line
  last_token,  \* Lexer.last_token
  cache,       \* Lexer.cache
  rules,       \* Lexer.rules
  order,       \* iteration order of the HashMap rules.literal_regex
  aborted,     \* a call panicked
  orig,        \* the source text the lexer was built from
  op,          \* the last call made: "new", "next", "peek", "current", "done"
  ret,         \* what the last call returned
  out,         \* the results next_token returned, in order
  scan,        \* where the last run of parse_next began its lexeme
  pre,         \* the fields at the entry of the last next_token / peek_next_token
  peeked,      \* the first result of the current run of peeks, with the state then
  returned,    \* << >>, or <<r>>: r is what the last next_token / peek_next_token returned
  trail        \* the whitespace skipped and the values of the tokens built, in order

vars == << source, line, last_token, cache, rules, order, aborted, orig, op, ret, out, scan, pre,
           peeked, returned, trail >>

(***************************************************************************)
(* The private helpers of Lexer, on a record st = [source, line].          *)
(***************************************************************************)
\* Lexer::done
done(st) == 0 >= Len(st.source)

\* Lexer::ch; indexes byte 0, so it panics on the empty source.
ch(st) == Head(st.source)

\* A get that removes the first character and never counts a newline.
get_without_count(st) ==
  [ c |-> Head(st.source), source |-> Tail(st.source), line |-> st.line ]

\* Lexer::get: removes the first character, counting a newline.
get(st) ==
  [ c      |-> Head(st.source),
    source |-> Tail(st.source),
    line   |-> IF Head(st.source) = "\n" THEN st.line + 1 ELSE st.line ]

\* A skip_whitespace with `if` for `while`: it skips one character at most.
skip_one_whitespace(R, st) ==
  IF done(st) THEN [ source |-> st.source, line |-> st.line, panic |-> TRUE ]
  ELSE IF ch(st) \in R.whitespace
       THEN (IF done(get(st))
             THEN [ source |-> get(st).source, line |-> get(st).line, panic |-> TRUE ]
             ELSE [ source |-> get(st).source, line |-> get(st).line, panic |-> FALSE ])
       ELSE [ source |-> st.source, line |-> st.line, panic |-> FALSE ]

\* Lexer::skip_whitespace: `while whitespace.is_match(ch()) { get(); }`.
\* ch() is called with no done() test: on the empty source it panics.
RECURSIVE skip_whitespace(_, _)
skip_whitespace(R, st) ==
  IF done(st) THEN [ source |-> st.source, line |-> st.line, panic |-> TRUE ]
  ELSE IF ch(st) \in R.whitespace
       THEN skip_whitespace(R, get(st))
       ELSE [ source |-> st.source, line |-> st.line, panic |-> FALSE ]

\* `while !self.done() && !halt.is_match(ch()) { lexeme.push(self.get()); }`
RECURSIVE scan_until(_, _, _)
scan_until(halt, st, lexeme) ==
  IF ~done(st) /\ ch(st) \notin halt
  THEN scan_until(halt, get(st), Append(lexeme, ch(st)))
  ELSE [ source |-> st.source, line |-> st.line, lexeme |-> lexeme ]

Token(type, value, ln) == [ token_type |-> type, value |-> value, line |-> ln ]

\* The token type the operator branch gives a lexeme found in rules.operators.
OperatorType(R, lexeme) == "operator"

\* The line a token is stamped with: self.line when the Token is built,
\* that is after the lexeme has been consumed.
TokenLine(startLine, endLine) == endLine

\* The literal rule the `for` loop over rules.literal_regex returns from: the
\* first one, in iteration order, whose start pattern matches the lexeme.
FirstLiteral(R, ord, c) ==
  LET hits == { i \in DOMAIN ord : c \in R.literal_regex[ord[i]][1] }
  IN  IF hits = { } THEN None
      ELSE Some(ord[CHOOSE i \in hits : \A j \in hits : i <= j])

\* A literal branch with no keyword test.
LiteralTypeNoKeyword(R, name, lexeme) == name

\* The token type of a lexeme scanned by literal rule `name`: "keyword" when
\* rules.keywords contains the lexeme, the rule's name otherwise.
LiteralType(R, name, lexeme) ==
  IF lexeme \in R.keywords THEN "keyword" ELSE name

\* Lexer::parse_next.
parse_next(R, ord, st0) ==
  LET ws == skip_whitespace(R, st0)
  IN
  IF ws.panic
  THEN [ source |-> ws.source, line |-> ws.line, tok |-> None, panic |-> TRUE,
         from |-> ws.source, start |-> ws.line ]
  ELSE
  LET first == get(ws)
      c     == first.c
      lit   == FirstLiteral(R, ord, c)
      res(s, t, p) == [ source |-> s.source, line |-> s.line, tok |-> t, panic |-> p,
                        from |-> ws.source, start |-> ws.line ]
  IN
  IF c \in R.operator_start
  THEN LET s == scan_until(R.operator_halt, first, << c >>)
       IN  IF s.lexeme \in DOMAIN R.operators
           THEN res(s, Some(Token(OperatorType(R, s.lexeme), s.lexeme,
                                  TokenLine(ws.line, s.line))), FALSE)
           ELSE res(s, None, TRUE)
  ELSE IF lit # None
  THEN LET s == scan_until(R.literal_regex[lit[1]][2], first, << c >>)
       IN  res(s, Some(Token(LiteralType(R, lit[1], s.lexeme), s.lexeme,
                             TokenLine(ws.line, s.line))), FALSE)
  ELSE LET s == scan_until(R.whitespace, first, << c >>)
       IN  IF s.lexeme \in R.keywords
           THEN res(s, Some(Token("keyword", s.lexeme, TokenLine(ws.line, s.line))), FALSE)
           ELSE res(s, None, TRUE)

\* A next_token whose matching branch returns the result of parse_next and
\* does not store it in last_token.
next_forgets_last(R, ord, lx) ==
  IF lx.cache # None
  THEN [ source |-> lx.source, line |-> lx.line, last_token |-> lx.cache, cache |-> None,
         ret |-> lx.cache, panic |-> FALSE, parsed |-> FALSE, scan |-> << >> ]
  ELSE LET p == parse_next(R, ord, [ source |-> lx.source, line |-> lx.line ])
       IN  [ source |-> p.source, line |-> p.line, last_token |-> lx.last_token,
             cache |-> None, ret |-> p.tok, panic |-> p.panic, parsed |-> TRUE,
             scan |-> << [ from |-> p.from, start |-> p.start ] >> ]

\* A next_token whose cached branch hands the lookahead out and keeps it.
next_keeps_cache(R, ord, lx) ==
  IF lx.cache # None
  THEN [ source |-> lx.source, line |-> lx.line, last_token |-> lx.cache, cache |-> lx.cache,
         ret |-> lx.cache, panic |-> FALSE, parsed |-> FALSE, scan |-> << >> ]
  ELSE LET p == parse_next(R, ord, [ source |-> lx.source, line |-> lx.line ])
       IN  [ source |-> p.source, line |-> p.line,
             last_token |-> IF p.panic THEN lx.last_token ELSE p.tok,
             cache |-> None, ret |-> p.tok, panic |-> p.panic, parsed |-> TRUE,
             scan |-> << [ from |-> p.from, start |-> p.start ] >> ]

\* Lexer::next_token on the fields [source, line, last_token, cache]: the
\* fields after the call, the value returned, and whether the call panicked.
next_token(R, ord, lx) ==
  IF lx.cache # None
  THEN [ source |-> lx.source, line |-> lx.line, last_token |-> lx.cache, cache |-> None,
         ret |-> lx.cache, panic |-> FALSE, parsed |-> FALSE, scan |-> << >> ]
  ELSE LET p == parse_next(R, ord, [ source |-> lx.source, line |-> lx.line ])
       IN  [ source |-> p.source, line |-> p.line,
             last_token |-> IF p.panic THEN lx.last_token ELSE p.tok,
             cache |-> None, ret |-> p.tok, panic |-> p.panic, parsed |-> TRUE,
             scan |-> << [ from |-> p.from, start |-> p.start ] >> ]

\* peek_next_token without the assignment to self.cache.
peek_without_cache(R, ord, lx) == next_token(R, ord, lx)

\* A peek that puts the source and the line back as they were before it.
peek_rewinds(R, ord, lx) ==
  LET n == next_token(R, ord, lx)
  IN  IF n.panic THEN n
      ELSE [ n EXCEPT !.cache = n.ret, !.source = lx.source, !.line = lx.line ]

\* Lexer::peek_next_token: `self.cache = self.next_token(); self.cache.clone()`.
peek_next_token(R, ord, lx) ==
  LET n == next_token(R, ord, lx)
  IN  IF n.panic THEN n ELSE [ n EXCEPT !.cache = n.ret ]

Fields == [ source |-> source, line |-> line, last_token |-> last_token, cache |-> cache ]

(***************************************************************************)
(* The state machine: Lexer::from, then any sequence of calls.             *)
(***************************************************************************)
Init ==
  /\ orig \in Sources
  /\ source = orig
  /\ line = 0
  /\ last_token = None
  /\ cache = None
  /\ rules \in RuleSets
  /\ order \in Orders(DOMAIN rules.literal_regex)
  /\ aborted = FALSE
  /\ op = "new"
  /\ ret = None
  /\ out = << >>
  /\ scan = << >>
  /\ pre = << >>
  /\ peeked = << >>
  /\ returned = << >>
  /\ trail = << >>

Store(n) ==
  /\ source' = n.source
  /\ line' = n.line
  /\ last_token' = n.last_token
  /\ cache' = n.cache
  /\ aborted' = n.panic
  /\ ret' = n.ret
  /\ scan' = IF n.parsed THEN n.scan ELSE scan
  /\ pre' = << [ source |-> source, line |-> line, last_token |-> last_token,
                 cache |-> cache, returned |-> returned ] >>
  /\ returned' = IF n.panic THEN returned ELSE << n.ret >>
  /\ trail' = IF n.parsed
              THEN trail \o SubSeq(source, 1, Len(source) - Len(n.scan[1].from))
                         \o (IF n.ret = None THEN << >> ELSE n.ret[1].value)
              ELSE trail

NextToken ==
  /\ ~aborted
  /\ LET n == next_token(rules, order, Fields)
     IN  /\ Store(n)
         /\ out' = IF n.panic THEN out ELSE Append(out, n.ret)
  /\ op' = "next"
  /\ peeked' = << >>
  /\ UNCHANGED << rules, order, orig >>

PeekNextToken ==
  /\ ~aborted
  /\ peeked # << >> => peeked[1].n < MaxPeeks
  /\ LET n == peek_next_token(rules, order, Fields)
     IN  /\ Store(n)
         /\ peeked' = IF n.panic THEN peeked
                      ELSE IF peeked = << >>
                      THEN << [ ret |-> n.ret, source |-> n.source, line |-> n.line, n |-> 1 ] >>
                      ELSE << [ peeked[1] EXCEPT !.n = @ + 1 ] >>
  /\ op' = "peek"
  /\ UNCHANGED << rules, order, orig, out >>

\* Lexer::current_token
CurrentToken ==
  /\ ~aborted
  /\ op' = "current"
  /\ ret' = last_token
  /\ UNCHANGED << source, line, last_token, cache, rules, order, aborted, orig, out, scan, pre,
                  peeked, returned, trail >>

\* Lexer::done, called by the consumer
Done ==
  /\ ~aborted
  /\ op' = "done"
  /\ ret' = IF done(Fields) THEN << "true" >> ELSE << "false" >>
  /\ UNCHANGED << source, line, last_token, cache, rules, order, aborted, orig, out, scan, pre,
                  peeked, returned, trail >>

Next == NextToken \/ PeekNextToken \/ CurrentToken \/ Done

Spec == Init /\ [][Next]_vars

\* A consumer that only advances: next_token, again and again.
NextAdvance == NextToken

SpecAdvance == Init /\ [][NextAdvance]_vars

\* The consumer loop of the Lexer documentation and of main.rs:
\* `while !lexer.done() { lexer.next_token().unwrap() }`.  unwrap() panics
\* on None.
LoopStep ==
  /\ ~aborted
  /\ ~done(Fields)
  /\ LET n == next_token(rules, order, Fields)
     IN  /\ Store([ n EXCEPT !.panic = n.panic \/ n.ret = None ])
         /\ out' = IF n.panic THEN out ELSE Append(out, n.ret)
  /\ op' = "next"
  /\ peeked' = << >>
  /\ UNCHANGED << rules, order, orig >>

NextLoop == LoopStep

SpecLoop == Init /\ [][NextLoop]_vars

(***************************************************************************)
(* What the properties below speak of.                                     *)
(***************************************************************************)
\* The maximal runs of non-whitespace characters of s, in order.
RECURSIVE Chunks(_, _, _)
Chunks(R, s, cur) ==
  IF s = << >> THEN (IF cur = << >> THEN << >> ELSE << cur >>)
  ELSE IF Head(s) \in R.whitespace
       THEN (IF cur = << >> THEN << >> ELSE << cur >>) \o Chunks(R, Tail(s), << >>)
       ELSE Chunks(R, Tail(s), Append(cur, Head(s)))

\* The rules a whole lexeme belongs to: the operator it is an entry of, and
\* every literal rule whose start pattern accepts its first character and
\* whose halt pattern accepts none of the following ones.
RulesOf(R, lexeme) ==
  (IF lexeme \in DOMAIN R.operators THEN { R.operators[lexeme] } ELSE { })
  \cup { n \in DOMAIN R.literal_regex :
           /\ lexeme # << >>
           /\ lexeme[1] \in R.literal_regex[n][1]
           /\ \A i \in 2..Len(lexeme) : lexeme[i] \notin R.literal_regex[n][2] }

\* s is valid lexemes separated (and possibly surrounded) by whitespace.
ValidLexemes(R, s) ==
  LET cs == Chunks(R, s, << >>)
  IN  \A i \in 1..Len(cs) : RulesOf(R, cs[i]) # { }

\* The results in rs that are tokens, in order.
RECURSIVE Tokens(_)
Tokens(rs) ==
  IF rs = << >> THEN << >>
  ELSE (IF Head(rs) = None THEN << >> ELSE << Head(rs)[1] >>) \o Tokens(Tail(rs))

\* The tokens ts are the first lexemes of s, each with the type of a rule it
\* belongs to.
TokensMatch(R, ts, s) ==
  LET cs == Chunks(R, s, << >>)
  IN  /\ Len(ts) <= Len(cs)
      /\ \A i \in 1..Len(ts) :
           /\ ts[i].value = cs[i]
           /\ ts[i].token_type \in RulesOf(R, cs[i])

RECURSIVE Newlines(_)
Newlines(s) ==
  IF s = << >> THEN 0 ELSE (IF Head(s) = "\n" THEN 1 ELSE 0) + Newlines(Tail(s))

\* The part of the original source consumed before text `rest` remains.
Consumed(rest) == SubSeq(orig, 1, Len(orig) - Len(rest))

\* The last call was next_token or peek_next_token.
Called == op \in {"next", "peek"}

\* The length rule `name` matches with at the start of text s (0: no match).
\* An operator entry matches where it is a prefix of s; a literal rule where
\* its start pattern accepts the first character, up to its halt pattern.
LiteralLen(R, n, s) ==
  IF s # << >> /\ Head(s) \in R.literal_regex[n][1]
  THEN Len(scan_until(R.literal_regex[n][2],
                      [ source |-> Tail(s), line |-> 0 ], << Head(s) >>).lexeme)
  ELSE 0

OperatorLen(R, k, s) ==
  IF Len(k) <= Len(s) /\ SubSeq(s, 1, Len(k)) = k THEN Len(k) ELSE 0

\* <<type name, matched length>> of every rule that matches at the start of s.
MatchesAt(R, s) ==
  { << n, LiteralLen(R, n, s) >> : n \in { m \in DOMAIN R.literal_regex : LiteralLen(R, m, s) > 0 } }
  \cup { << R.operators[k], Len(k) >> : k \in { j \in DOMAIN R.operators : OperatorLen(R, j, s) > 0 } }

\* No rule and no keyword matches at the start of s.
Unrecognized(R, s) ==
  /\ s # << >>
  /\ Head(s) \notin R.operator_start
  /\ \A n \in DOMAIN R.literal_regex : Head(s) \notin R.literal_regex[n][1]
  /\ scan_until(R.whitespace, [ source |-> s, line |-> 0 ], << >>).lexeme \notin R.keywords

\* The type names the rule table defines.
TypeNames(R) == DOMAIN R.literal_regex \cup { R.operators[k] : k \in DOMAIN R.operators }

(***************************************************************************)
(* The properties.                                                         *)
(***************************************************************************)

\* C1: for a source of valid lexemes separated by whitespace, advancing until
\* end of input never aborts, returns the lexemes in order, one token each,
\* with the type of the lexeme's rule, and reports end of input only after
\* the last lexeme.
C1_AdvanceReturnsLexemes ==
  (orig # << >> /\ ValidLexemes(rules, orig)) =>
    /\ ~aborted
    /\ TokensMatch(rules, Tokens(out), orig)
    /\ \A i \in 1..Len(out) :
         out[i] = None => /\ i = Len(Chunks(rules, orig, << >>)) + 1
                          /\ Len(Tokens(out)) = i - 1

\* C2: a token produced at a scan position has the length of the longest
\* match of any rule at that position, whatever the iteration order of the
\* rule table, and a token named after a literal rule is named after a rule
\* matching with that length.  (Which name an operator or a keyword gets is
\* C9's subject.)
C2_LongestMatch ==
  (Called /\ ~aborted /\ ret # None /\ scan # << >>) =>
    LET ms == MatchesAt(rules, scan[1].from)
    IN  /\ \A m \in ms : m[2] <= Len(ret[1].value)
        /\ ret[1].token_type \in DOMAIN rules.literal_regex =>
             << ret[1].token_type, Len(ret[1].value) >> \in ms

\* C3: when no rule matches at the scan position, the call does not abort,
\* consumes exactly one character and returns no token (an error result).
C3_UnrecognizedRecovery ==
  (Called /\ scan # << >> /\ Unrecognized(rules, scan[1].from)) =>
    /\ ~aborted
    /\ ret = None
    /\ Len(source) = Len(scan[1].from) - 1

\* C4: for a source of one or more whitespace characters only, the first
\* advance returns end of file, no token is produced, and done() is true
\* after the call.
C4_WhitespaceOnlyIsEndOfFile ==
  (orig # << >> /\ Chunks(rules, orig, << >>) = << >> /\ op = "next") =>
    /\ ~aborted
    /\ out[1] = None
    /\ Tokens(out) = << >>
    /\ done(Fields)

\* C5: advance or peek on an empty remaining source with no cached lookahead
\* returns end of file as a value and leaves remaining and line unchanged.
C5_EndOfFileIsAValue ==
  (Called /\ done(pre[1]) /\ pre[1].cache = None) =>
    /\ ~aborted
    /\ ret = None
    /\ source = pre[1].source
    /\ line = pre[1].line

\* C6: no sequence of next_token, peek_next_token, current_token and done
\* calls reaches a panic.
C6_NeverPanics == ~aborted

\* C7: every peek of a run of consecutive peeks returns what the first one
\* returned, and after the first one the remaining source and the line
\* counter do not change.
C7_PeekIdempotent ==
  peeked # << >> =>
    /\ ~aborted
    /\ source = peeked[1].source
    /\ line = peeked[1].line
    /\ op = "peek" => ret = peeked[1].ret

\* A third peek in a row has returned a token.
C7_Witness ==
  /\ peeked # << >>
  /\ peeked[1].n >= 3
  /\ op = "peek"
  /\ ret # None
  /\ ~aborted

\* C8: the loop `while !done() { next_token().unwrap() }` never aborts on a
\* source of valid lexemes and whitespace, and ends having returned every
\* lexeme.
C8_ConsumerLoopSafe ==
  (ValidLexemes(rules, orig) /\ Chunks(rules, orig, << >>) # << >>) =>
    /\ ~aborted
    /\ done(Fields) => Len(Tokens(out)) = Len(Chunks(rules, orig, << >>))

\* C9: every token returned has a type name the rule table defines, and an
\* operator lexeme has the name the operators table maps it to.
C9_TypeNamesFromTable ==
  (Called /\ ~aborted /\ ret # None) =>
    /\ ret[1].token_type \in TypeNames(rules)
    /\ ret[1].value \in DOMAIN rules.operators =>
         ret[1].token_type = rules.operators[ret[1].value]

\* C10: a token's line is the number of newline characters consumed before
\* the first character of its lexeme.
C10_LineAtStartOfMatch ==
  (Called /\ ~aborted /\ ret # None /\ scan # << >>) =>
    ret[1].line = Newlines(Consumed(scan[1].from))

\* The call before the last next_token / peek_next_token call returned end
\* of file.
PriorEndOfFile == pre[1].returned = << None >>

\* C11 as claimed: after an advance or a peek that returned, the remaining
\* source is no longer than before, and strictly shorter unless the previous
\* call had already returned end of file.
C11_StrictlyShorterUnlessEndOfFile ==
  (Called /\ ~aborted) =>
    /\ Len(source) <= Len(pre[1].source)
    /\ ~PriorEndOfFile => Len(source) < Len(pre[1].source)

\* C11 as amended: after an advance or a peek the remaining source is no
\* longer than before, and strictly shorter whenever the call found no
\* lookahead cached and a remaining source that was not empty.
C11_ShorterWhenMatcherRuns ==
  Called =>
    /\ Len(source) <= Len(pre[1].source)
    /\ (pre[1].cache = None /\ ~done(pre[1])) => Len(source) < Len(pre[1].source)

\* A peek that found a lookahead cached has returned it and the remaining
\* source is as long as before, the previous call not having returned end of
\* file.
C11_Witness ==
  /\ op = "peek"
  /\ ~aborted
  /\ pre[1].cache # None
  /\ ~PriorEndOfFile
  /\ ret # None
  /\ Len(source) = Len(pre[1].source)

\* C12: at every point of a scan the tokens' values and the whitespace runs
\* skipped, concatenated in order and followed by the remaining source, are
\* the original source.
C12_RoundTrip == trail \o source = orig

\* What a consumer that only advances gets from source text s at line l: the
\* results of next_token, call after call, up to the call that panics.
RECURSIVE Advances(_, _, _, _)
Advances(R, ord, s, l) ==
  LET p == parse_next(R, ord, [ source |-> s, line |-> l ])
  IN  IF p.panic THEN << >>
      ELSE << p.tok >> \o (IF p.tok = None THEN << >> ELSE Advances(R, ord, p.source, p.line))

IsPrefix(a, b) == Len(a) <= Len(b) /\ SubSeq(b, 1, Len(a)) = a

\* C13: an advance that finds a lookahead cached returns what the preceding
\* peek returned and leaves the remaining source and the line alone; after
\* any advance the cache is empty; and the results the advances returned are
\* those a scan of the same source with no peek returns.
C13_LookaheadStateMachine ==
  /\ (op = "next" /\ pre[1].cache # None) =>
       /\ ~aborted
       /\ << ret >> = pre[1].returned
       /\ source = pre[1].source
       /\ line = pre[1].line
  /\ op = "next" => cache = None
  /\ IsPrefix(out, Advances(rules, order, orig, 0))

\* A second token has been advanced to, through a lookahead.
C13_Witness ==
  /\ op = "next"
  /\ pre[1].cache # None
  /\ Len(out) >= 2
  /\ ret # None

\* C14: the remaining source is a suffix of the original source, and the line
\* counter is the number of newline characters of the consumed prefix.
C14_SuffixAndLineCount ==
  /\ Len(source) <= Len(orig)
  /\ SubSeq(orig, Len(orig) - Len(source) + 1, Len(orig)) = source
  /\ line = Newlines(Consumed(source))

\* A token whose lexeme holds a newline has been returned after a newline
\* was skipped as whitespace.
C14_Witness ==
  /\ Called
  /\ ret # None
  /\ scan # << >>
  /\ scan[1].start >= 1
  /\ \E i \in 1..Len(ret[1].value) : ret[1].value[i] = "\n"
  /\ line >= 2

\* C15: a consumer that keeps advancing while done() is false reaches done():
\* the loop never stops with source left (it can take its next step, which is
\* when no call has panicked, or done() is true), every advance that ran the
\* matcher on a non-empty source consumed a character, and no more advances
\* return than the source has characters.
C15_ScanReachesDone ==
  /\ done(Fields) \/ ~aborted
  /\ (op = "next" /\ ~done(pre[1])) => Len(source) < Len(pre[1].source)
  /\ Len(out) <= Len(orig)

\* C16: what a scan has returned is what a scan of the same source under the
\* same rule table returns whatever the iteration order of the rule mapping.
C16_OrderIndependent ==
  \A o \in Orders(DOMAIN rules.literal_regex) :
    IsPrefix(out, Advances(rules, o, orig, 0))

C18_CurrentIsLastResult ==
  /\ last_token = (IF returned = << >> THEN None ELSE returned[1])
  /\ op = "current" => ret = (IF returned = << >> THEN None ELSE returned[1])
  /\ (op = "next" /\ pre[1].cache # None) => last_token = pre[1].last_token

\* current_token() has returned a token that was peeked and not advanced to.
C18_Witness ==
  /\ op = "current"
  /\ ret # None
  /\ cache = ret
  /\ out = << >>

\* C19: a lexeme whose first character matches operator_start is scanned as
\* an operator, whatever literal rules and keywords would match; otherwise a
\* lexeme found in keywords is a "keyword", whichever literal rule scanned
\* it; otherwise the token has the name of a literal rule whose start pattern
\* accepts the first character.
C19_BranchPriority ==
  (Called /\ ret # None /\ scan # << >>) =>
    LET t == ret[1]
        c == Head(scan[1].from)
    IN  IF c \in rules.operator_start
        THEN /\ t.token_type = "operator"
             /\ t.value \in DOMAIN rules.operators
             /\ t.value = scan_until(rules.operator_halt,
                                     [ source |-> Tail(scan[1].from), line |-> 0 ], << c >>).lexeme
        ELSE IF t.value \in rules.keywords
        THEN t.token_type = "keyword"
        ELSE /\ t.token_type \in DOMAIN rules.literal_regex
             /\ c \in rules.literal_regex[t.token_type][1]

\* A keyword scanned by a literal rule has been returned, under a rule table
\* with another literal rule.
C19_Witness ==
  /\ Called
  /\ ret # None
  /\ ret[1].token_type = "keyword"
  /\ scan # << >>
  /\ \E n \in DOMAIN rules.literal_regex : Head(scan[1].from) \in rules.literal_regex[n][1]

====
